---- MODULE Spec2Model ----
(***************************************************************************)
(* Model of lmnav: RolloutStorage (lmnav/common/rollout_storage.py) and    *)
(* BCTrainer (lmnav/bc_train.py): the gradient-accumulation loop and the   *)
(* input padding of train_bc_step, train() run by several worker           *)
(* processes with checkpoints and relaunches, and the evaluation loop.     *)
(*                                                                         *)
(* Tensors are functions over 0-based index ranges, as in the source.      *)
(* An optional argument is <<>> (None) or <<v>> (a value).                 *)
(***************************************************************************)
EXTENDS Integers, Sequences, FiniteSets, TLC

\* ------------------------------------------------------------------ bounds
\* largest num_envs / max_steps a storage is constructed with
MaxEnvs == 2
MaxHorizon == 3
\* largest max_steps and number of insert/reset calls followed in the
\* buffer-content specification
MaxHorizonBuf == 2
MaxCalls == 4
\* largest batch_size and num_grad_accums of a training configuration, and
\* number of train_bc_step calls followed
MaxBatchSize == 16
MaxGradAccums == 4
MaxBatches == 2
\* largest max_trajectory_length and minibatch size in the padding
\* specification
MaxTrajLen == 3
MaxMinibatch == 2
\* the distributed run: largest number of worker processes, train.steps,
\* train.ckpt_freq, batches per epoch, and launches of the job
MaxWorkers == 2
MaxTrainSteps == 2
MaxCkptFreq == 2
MaxEpochLen == 2
MaxRuns == 2
\* evaluation: largest number of environments and eval.num_episodes,
\* environment steps followed in one evaluation, and evaluations of the
\* checkpoint
MaxEvalEnvs == 2
MaxEpisodes == 2
MaxEvalSteps == 3
MaxEvals == 2

VARIABLES
    num_envs,          \* RolloutStorage.num_envs
    max_steps,         \* RolloutStorage.max_steps
    rgbs,              \* [env -> [0..max_steps -> value]]
    goals,             \* [env -> [0..max_steps -> value]]
    actions,           \* [env -> [0..max_steps -> value]]
    dones,             \* [env -> [0..max_steps -> BOOLEAN]]
    successes,         \* [env -> [0..max_steps-1 -> BOOLEAN]]
    rewards,           \* [env -> [0..max_steps -> value]]
    current_step_idx,  \* the cursor shared by all environments
    raised,            \* exception raised by the last call, or "none"
    carry,             \* history: last slot of every buffer at the last reset()
    ncalls,            \* history: number of calls made so far
    device,            \* [buffer name -> where the storage's tensor resides]
    at_to_cpu,         \* history: the storage fields when to_cpu() was last entered
    accepted,          \* history: inserts that succeeded since construction
                       \*   or the last reset()
    config,            \* BCTrainer.config.train: batch_size, minibatch_size,
                       \*   num_grad_accums, max_grad_norm
    pc,                \* position of the trainer
    mb,                \* train_bc_step: first minibatch of the current chunk
    g,                 \* train_bc_step: position inside the current chunk
    grads,             \* minibatches whose gradient is accumulated in .grad
    log,               \* history: events of the current train_bc_step call
    nbatches,          \* history: number of train_bc_step calls completed
    T,                 \* config.train.max_trajectory_length
    minibatch,         \* the sub-sequences of one minibatch: frames, actions
    mask_t,            \* train_bc_step: the stacked masks, None before
    rgbs_t,            \* train_bc_step: the stacked padded frames
    actions_t,         \* train_bc_step: the stacked padded actions
    padpc,             \* train_bc_step: position in the construction of the
                       \* minibatch
    world_size,        \* number of worker processes of the job
    run,               \* launch: train.steps, train.ckpt_freq, batches per
                       \*   epoch of the data loader, exp.resume_id
    nruns,             \* history: number of launches of the job
    wpc,               \* [worker -> position in train()]
    step,              \* [worker -> self.step]
    epoch,             \* [worker -> self.epoch]
    cumstats,          \* [worker -> self.cumstats]
    sampler,           \* [worker -> cursor of self.sampler]
    data_files,        \* [worker -> the file list its dataset is built from]
    ckpt_path,         \* [worker -> the checkpoint it resumes from]
    trained,           \* history: [worker -> train_bc_step calls returned]
    artifact_store,    \* the key/value store: key -> None or Some(value)
    store_writers,     \* history: key -> the workers that have set it
    arrived,           \* [worker -> collective calls entered: barriers and
                       \* all-reduces]
    ckpt_files,        \* disk: checkpoint index -> content of ckpt.<index>.pth
    latest,            \* the writer's latest model artifact
    writes,            \* history: the save_checkpoint calls, in order
    eval_cfg,          \* eval.num_episodes, envs.num_envs, eval.save_videos
    epc,               \* position in eval() / eval_checkpoint
    stats,             \* eval_checkpoint: the counters in memory
    stats_exists,      \* disk: <eval_dir>/<ckpt_name>/stats.pkl exists
    stats_file,        \* disk: the object pickled in stats.pkl, None if the
                       \* file is absent or holds no complete pickle
    outcomes,          \* [env -> what the last envs.step reported for it]
    ei,                \* eval_checkpoint: index i of the loop over dones
    nevals,            \* history: evaluations of the checkpoint started
    nsteps,            \* history: envs.step calls of this evaluation
    video_errors,      \* history: exceptions caught while saving a video
    episodes           \* [env -> number of records in episodes[env]]

storage_vars == <<num_envs, max_steps, rgbs, goals, actions, dones, successes,
                  rewards, current_step_idx>>
storage_side == <<num_envs, max_steps, rgbs, goals, actions, dones, successes,
                  rewards, current_step_idx, raised, carry, ncalls, device,
                  at_to_cpu, accepted>>
trainer_vars == <<config, pc, mb, g, grads, log, nbatches>>
pad_vars == <<T, minibatch, mask_t, rgbs_t, actions_t, padpc>>
launch_vars == <<world_size, run, nruns>>
proc_vars == <<wpc, step, epoch, cumstats, sampler, data_files, ckpt_path,
               trained>>
shared_vars == <<artifact_store, store_writers, arrived>>
disk_vars == <<ckpt_files, latest, writes>>
dist_vars == <<launch_vars, proc_vars, shared_vars, disk_vars>>
eval_vars == <<eval_cfg, epc, stats, stats_exists, stats_file, outcomes, ei,
               nevals, nsteps, video_errors, episodes>>
vars == <<num_envs, max_steps, rgbs, goals, actions, dones, successes,
          rewards, current_step_idx, raised, carry, ncalls, device, at_to_cpu,
          accepted,
          config, pc, mb, g, grads, log, nbatches,
          T, minibatch, mask_t, rgbs_t, actions_t, padpc,
          world_size, run, nruns, wpc, step, epoch, cumstats, sampler,
          data_files, ckpt_path, trained, artifact_store, store_writers,
          arrived, ckpt_files, latest, writes,
          eval_cfg, epc, stats, stats_exists, stats_file, outcomes, ei, nevals, nsteps,
          video_errors, episodes>>

\* what the actions of one part of the program leave alone
beside_storage == <<trainer_vars, pad_vars, dist_vars, eval_vars>>
beside_trainer == <<storage_side, pad_vars, dist_vars, eval_vars>>
beside_pad == <<storage_side, trainer_vars, dist_vars, eval_vars>>
beside_dist == <<storage_side, trainer_vars, pad_vars, eval_vars>>
beside_eval == <<storage_side, trainer_vars, pad_vars, dist_vars>>

None == <<>>
Some(v) == <<v>>

Envs == 0 .. (num_envs - 1)

\* ------------------------------------------------------- tensor indexing
\* an integer index i is valid for a dimension of size n
InRange(i, n) == (-n <= i) /\ (i < n)

\* the slot a valid integer index denotes (negative indices count from the end)
PyIdx(i, n) == IF i < 0 THEN i + n ELSE i

\* t[:, i] = v  for a tensor whose second dimension has size n
SetCol(t, i, n, v) == [b \in DOMAIN t |-> [t[b] EXCEPT ![PyIdx(i, n)] = v[b]]]

\* t[:, i]
GetCol(t, i, n) == [b \in DOMAIN t |-> t[b][PyIdx(i, n)]]

\* row[start:stop] for a row of size n and 0 <= start, 0 <= stop
PySlice(row, n, start, stop) ==
    LET lo == IF start < n THEN start ELSE n
        hi == IF stop < n THEN stop ELSE n
        len == IF hi > lo THEN hi - lo ELSE 0
    IN  [k \in 1 .. len |-> row[lo + k - 1]]

\* ------------------------------------------------------------ __init__
Zeros(ne, n, z) == [b \in 0 .. (ne - 1) |-> [i \in 0 .. (n - 1) |-> z]]

\* the six buffers of the storage
Buffers == {"rgbs", "goals", "actions", "dones", "rewards", "successes"}

StorageInit(ne, ms, dev) ==
    /\ num_envs = ne
    /\ max_steps = ms
    /\ rgbs = Zeros(ne, ms + 1, 0)
    /\ goals = Zeros(ne, ms + 1, 0)
    /\ actions = Zeros(ne, ms + 1, 0)
    /\ dones = Zeros(ne, ms + 1, FALSE)
    /\ successes = Zeros(ne, ms, FALSE)
    /\ rewards = Zeros(ne, ms + 1, 0)
    /\ current_step_idx = -1
    /\ raised = "none"
    /\ carry = None
    /\ ncalls = 0
    /\ device = [t \in Buffers |-> dev]
    /\ at_to_cpu = None
    /\ accepted = 0

\* -------------------------------------------------------------- insert
\* The first statement indexes rgbs at current_step_idx + 1 and raises
\* IndexError before anything is written when that is out of range.  With
\* max_steps >= 1 and -1 <= current_step_idx < max_steps the later index
\* current_step_idx is valid for every buffer (size max_steps + 1, and
\* max_steps for successes), so no later statement raises.
\* variant: the transition fields are written next to the observation, at
\* current_step_idx + 1
insert_NoOffset(next_rgbs, next_goals, a_dones, a_actions, a_rewards, a_successes) ==
    IF ~InRange(current_step_idx + 1, max_steps + 1)
    THEN /\ raised' = "IndexError"
         /\ UNCHANGED storage_vars
    ELSE /\ rgbs' = SetCol(rgbs, current_step_idx + 1, max_steps + 1, next_rgbs)
         /\ goals' = SetCol(goals, current_step_idx + 1, max_steps + 1, next_goals)
         /\ dones' = IF a_dones # None
                     THEN SetCol(dones, current_step_idx + 1, max_steps + 1, a_dones[1])
                     ELSE dones
         /\ successes' = IF a_successes # None
                         THEN SetCol(successes, current_step_idx, max_steps, a_successes[1])
                         ELSE successes
         /\ rewards' = IF a_rewards # None
                       THEN SetCol(rewards, current_step_idx + 1, max_steps + 1, a_rewards[1])
                       ELSE rewards
         /\ actions' = IF a_actions # None
                       THEN SetCol(actions, current_step_idx + 1, max_steps + 1, a_actions[1])
                       ELSE actions
         /\ current_step_idx' = current_step_idx + 1
         /\ raised' = "none"
         /\ UNCHANGED <<num_envs, max_steps>>

\* variant: an observation past the end wraps to slot 0 instead of raising
insert_Wraps(next_rgbs, next_goals, a_dones, a_actions, a_rewards, a_successes) ==
    /\ rgbs' = SetCol(rgbs, (current_step_idx + 1) % (max_steps + 1), max_steps + 1, next_rgbs)
    /\ goals' = SetCol(goals, (current_step_idx + 1) % (max_steps + 1), max_steps + 1, next_goals)
    /\ dones' = IF a_dones # None
                THEN SetCol(dones, current_step_idx, max_steps + 1, a_dones[1])
                ELSE dones
    /\ successes' = IF a_successes # None
                    THEN SetCol(successes, current_step_idx % max_steps, max_steps, a_successes[1])
                    ELSE successes
    /\ rewards' = IF a_rewards # None
                  THEN SetCol(rewards, current_step_idx, max_steps + 1, a_rewards[1])
                  ELSE rewards
    /\ actions' = IF a_actions # None
                  THEN SetCol(actions, current_step_idx, max_steps + 1, a_actions[1])
                  ELSE actions
    /\ current_step_idx' = (current_step_idx + 1) % (max_steps + 1)
    /\ raised' = "none"
    /\ UNCHANGED <<num_envs, max_steps>>

insert(next_rgbs, next_goals, a_dones, a_actions, a_rewards, a_successes) ==
    IF ~InRange(current_step_idx + 1, max_steps + 1)
    THEN /\ raised' = "IndexError"
         /\ UNCHANGED storage_vars
    ELSE /\ rgbs' = SetCol(rgbs, current_step_idx + 1, max_steps + 1, next_rgbs)
         /\ goals' = SetCol(goals, current_step_idx + 1, max_steps + 1, next_goals)
         /\ dones' = IF a_dones # None
                     THEN SetCol(dones, current_step_idx, max_steps + 1, a_dones[1])
                     ELSE dones
         /\ successes' = IF a_successes # None
                         THEN SetCol(successes, current_step_idx, max_steps, a_successes[1])
                         ELSE successes
         /\ rewards' = IF a_rewards # None
                       THEN SetCol(rewards, current_step_idx, max_steps + 1, a_rewards[1])
                       ELSE rewards
         /\ actions' = IF a_actions # None
                       THEN SetCol(actions, current_step_idx, max_steps + 1, a_actions[1])
                       ELSE actions
         /\ current_step_idx' = current_step_idx + 1
         /\ raised' = "none"
         /\ UNCHANGED <<num_envs, max_steps>>

\* --------------------------------------------------------------- reset
\* the last slot of every buffer, as it is when reset() is entered
LastSlots ==
    [rgbs |-> GetCol(rgbs, -1, max_steps + 1),
     goals |-> GetCol(goals, -1, max_steps + 1),
     actions |-> GetCol(actions, -1, max_steps + 1),
     dones |-> GetCol(dones, -1, max_steps + 1),
     rewards |-> GetCol(rewards, -1, max_steps + 1),
     successes |-> GetCol(successes, -1, max_steps)]

\* variant: the last transition slot (max_steps - 1), not the last observation
reset_FromLastStep ==
    /\ rgbs' = SetCol(rgbs, 0, max_steps + 1, GetCol(rgbs, -2, max_steps + 1))
    /\ goals' = SetCol(goals, 0, max_steps + 1, GetCol(goals, -2, max_steps + 1))
    /\ current_step_idx' = 0
    /\ raised' = "none"
    /\ carry' = Some(LastSlots)
    /\ UNCHANGED <<num_envs, max_steps, actions, dones, successes, rewards>>

\* variant: the goal is not carried over
reset_FramesOnly ==
    /\ rgbs' = SetCol(rgbs, 0, max_steps + 1, GetCol(rgbs, -1, max_steps + 1))
    /\ current_step_idx' = 0
    /\ raised' = "none"
    /\ carry' = Some(LastSlots)
    /\ UNCHANGED <<num_envs, max_steps, goals, actions, dones, successes, rewards>>

\* variant: the cursor goes back to where construction leaves it
reset_ToStart ==
    /\ rgbs' = SetCol(rgbs, 0, max_steps + 1, GetCol(rgbs, -1, max_steps + 1))
    /\ goals' = SetCol(goals, 0, max_steps + 1, GetCol(goals, -1, max_steps + 1))
    /\ current_step_idx' = -1
    /\ raised' = "none"
    /\ carry' = Some(LastSlots)
    /\ UNCHANGED <<num_envs, max_steps, actions, dones, successes, rewards>>

reset ==
    /\ rgbs' = SetCol(rgbs, 0, max_steps + 1, GetCol(rgbs, -1, max_steps + 1))
    /\ goals' = SetCol(goals, 0, max_steps + 1, GetCol(goals, -1, max_steps + 1))
    /\ current_step_idx' = 0
    /\ raised' = "none"
    /\ carry' = Some(LastSlots)
    /\ UNCHANGED <<num_envs, max_steps, actions, dones, successes, rewards>>

\* -------------------------------------------------------------- to_cpu
\* variant: the cursor is rewound as by a fresh construction
to_cpu_Rewinds ==
    /\ current_step_idx' = -1
    /\ raised' = "none"
    /\ at_to_cpu' = Some(storage_vars)
    /\ UNCHANGED <<num_envs, max_steps, rgbs, goals, actions, dones, successes,
                   rewards, device>>

\* map(lambda t: t.cpu(), (...)) only builds an iterator; to_cpu() drops it
\* without consuming it, so t.cpu() is called for no buffer and no attribute
\* of the storage is rebound
to_cpu ==
    /\ raised' = "none"
    /\ at_to_cpu' = Some(storage_vars)
    /\ UNCHANGED storage_vars
    /\ UNCHANGED device

\* ---------------------------------------------------- generate_samples
\* torch.where(self.dones[b])[0].tolist(): the indices of the True entries
\* of the whole row (max_steps + 1 entries), in increasing order
DoneIdxs(b) ==
    SelectSeq([i \in 1 .. (max_steps + 1) |-> i - 1], LAMBDA i : dones[b][i])

\* variant: the closing boundary is appended unconditionally
ends_AlwaysAppend(b) == Append(<<-1>> \o DoneIdxs(b), max_steps - 1)

ends(b) ==
    LET e == <<-1>> \o DoneIdxs(b)
    IN  IF e[Len(e)] # max_steps - 1 THEN Append(e, max_steps - 1) ELSE e

\* slice(ends[i] + 1, ends[i + 1] + 1) as <<start, stop>>
slices(b) ==
    LET e == ends(b)
    IN  [i \in 1 .. (Len(e) - 1) |-> <<e[i] + 1, e[i + 1] + 1>>]

\* the six slices t[b, s] of one sample
SampleOf(b, s) ==
    <<PySlice(rgbs[b], max_steps + 1, s[1], s[2]),
      PySlice(goals[b], max_steps + 1, s[1], s[2]),
      PySlice(actions[b], max_steps + 1, s[1], s[2]),
      PySlice(rewards[b], max_steps + 1, s[1], s[2]),
      PySlice(dones[b], max_steps + 1, s[1], s[2]),
      PySlice(successes[b], max_steps, s[1], s[2])>>

\* the (environment, slice) pairs in the order the loops visit them
RECURSIVE SampleKeys(_)
SampleKeys(n) ==
    IF n = 0 THEN <<>>
    ELSE LET sl == slices(n - 1)
         IN  SampleKeys(n - 1) \o [i \in 1 .. Len(sl) |-> <<n - 1, sl[i]>>]

samples ==
    LET keys == SampleKeys(num_envs)
    IN  [i \in 1 .. Len(keys) |-> SampleOf(keys[i][1], keys[i][2])]

\* zip(*samples): one sequence per buffer, aligned by sample index
generate_samples ==
    LET smp == samples
    IN  [j \in 1 .. 6 |-> [i \in 1 .. Len(smp) |-> smp[i][j]]]

\* =============================================================== BCTrainer
\* BCTrainer(config): nothing has run yet
TrainerInit(bs, mbs, nga, mgn) ==
    /\ config = [batch_size |-> bs, minibatch_size |-> mbs,
                 num_grad_accums |-> nga, max_grad_norm |-> mgn]
    /\ pc = "new"
    /\ mb = 0
    /\ g = 0
    /\ grads = <<>>
    /\ log = <<>>
    /\ nbatches = 0

\* no trainer is running (the storage specifications)
NoTrainer == TrainerInit(1, 1, 1, None)

num_minibatches == config.batch_size \div config.minibatch_size

\* validate_config: the two assertions
ConfigValid ==
    /\ config.batch_size % config.minibatch_size = 0
    /\ num_minibatches % config.num_grad_accums = 0

\* initialize_train, as far as train_bc_step depends on it: validate_config()
\* runs first and an AssertionError ends train()
initialize_train ==
    /\ pc = "new"
    /\ pc' = IF ConfigValid THEN "ready" ELSE "AssertionError"
    /\ UNCHANGED <<config, mb, g, grads, log, nbatches>>
    /\ UNCHANGED beside_trainer

Event(ev, idx, sync, gr) == [ev |-> ev, idx |-> idx, sync |-> sync, grads |-> gr]

\* train_bc_step is entered with a batch of batch_size sub-sequences; the
\* rows of batch_idxs are numbered 0 .. num_minibatches - 1
train_bc_step_enter ==
    /\ pc = "ready"
    /\ nbatches < MaxBatches
    /\ pc' = "for_mb"
    /\ mb' = 0
    /\ g' = 0
    /\ log' = <<>>
    /\ UNCHANGED <<config, grads, nbatches>>
    /\ UNCHANGED beside_trainer

\* for mb in range(0, num_minibatches, num_grad_accums)
for_mb ==
    /\ pc = "for_mb"
    /\ pc' = IF mb < num_minibatches THEN "for_g" ELSE "return"
    /\ g' = 0
    /\ UNCHANGED <<config, mb, grads, log, nbatches>>
    /\ UNCHANGED beside_trainer

\* variant: every backward pass but the first of a chunk synchronizes
no_sync_FirstOnly == g < 1

\* the backward pass of a minibatch runs under no_sync()
no_sync == g < config.num_grad_accums - 1

\* for g in range(num_grad_accums): forward and backward of minibatch
\* batch_idxs[mb + g], gradients accumulating in .grad
backward ==
    /\ pc = "for_g"
    /\ g < config.num_grad_accums
    /\ grads' = Append(grads, mb + g)
    /\ log' = Append(log, Event("backward", mb + g, ~no_sync, <<>>))
    /\ g' = g + 1
    /\ UNCHANGED <<config, pc, mb, nbatches>>
    /\ UNCHANGED beside_trainer

\* the inner loop is exhausted; clip_grad_norm_ if max_grad_norm is not None
clip_grad_norm ==
    /\ pc = "for_g"
    /\ g >= config.num_grad_accums
    /\ log' = IF config.max_grad_norm # None
              THEN Append(log, Event("clip", -1, FALSE, <<>>))
              ELSE log
    /\ pc' = "step"
    /\ UNCHANGED <<config, mb, g, grads, nbatches>>
    /\ UNCHANGED beside_trainer

\* self.optim.step(): the accumulated gradient is applied
optim_step ==
    /\ pc = "step"
    /\ log' = Append(log, Event("step", -1, FALSE, grads))
    /\ pc' = "zero_grad"
    /\ UNCHANGED <<config, mb, g, grads, nbatches>>
    /\ UNCHANGED beside_trainer

\* variant: the gradients are not zeroed after the step
zero_grad_Skipped ==
    /\ pc = "zero_grad"
    /\ mb' = mb + config.num_grad_accums
    /\ pc' = "for_mb"
    /\ UNCHANGED <<config, g, grads, log, nbatches>>
    /\ UNCHANGED beside_trainer

\* self.optim.zero_grad(), then the outer loop advances
zero_grad ==
    /\ pc = "zero_grad"
    /\ grads' = <<>>
    /\ log' = Append(log, Event("zero", -1, FALSE, <<>>))
    /\ mb' = mb + config.num_grad_accums
    /\ pc' = "for_mb"
    /\ UNCHANGED <<config, g, nbatches>>
    /\ UNCHANGED beside_trainer

\* return stats
train_bc_step_return ==
    /\ pc = "return"
    /\ pc' = "ready"
    /\ nbatches' = nbatches + 1
    /\ UNCHANGED <<config, mb, g, grads, log>>
    /\ UNCHANGED beside_trainer

\* ======================================================= BCTrainer.train
\* world_size worker processes run train() with the same configuration.
Workers == 0 .. (world_size - 1)

rank0_only(w) == w = 0

\* ';'.join(names): a string is a sequence of characters
RECURSIVE Join(_)
Join(names) ==
    IF Len(names) = 0 THEN <<>>
    ELSE IF Len(names) = 1 THEN names[1]
    ELSE names[1] \o <<";">> \o Join(Tail(names))

\* str.split(';'): the pieces between separators; one piece, the whole
\* string, when there is no separator (also for the empty string)
RECURSIVE Split(_)
Split(str) ==
    LET seps == {i \in 1 .. Len(str) : str[i] = ";"}
    IN  IF seps = {} THEN <<str>>
        ELSE LET i == CHOOSE j \in seps : \A k \in seps : j <= k
             IN  <<SubSeq(str, 1, i - 1)>> \o Split(SubSeq(str, i + 1, Len(str)))

\* the file lists writer.load_dataset can return: no file, two files, one
\* file with a ';' in its name
FileLists ==
    {<< >>,
     << <<"a">>, <<"b">> >>,
     << <<"a", ";", "b">> >>}

\* the training configurations of a job, as <<batch_size, minibatch_size,
\* num_grad_accums>>: a valid one and one failing each assertion of
\* validate_config
TrainConfigs == {<<4, 2, 2>>, <<3, 2, 1>>, <<4, 1, 3>>}

\* ResumableRandomSampler: a cursor over the batches of an epoch.  A new
\* sampler stands at the first batch; iteration hands out the batches from
\* the cursor to the end of the epoch and then starts over; state_dict()
\* and load_state_dict() carry the cursor.
sampler_new == 0
sampler_has_next(cursor) == cursor < run.epoch_len
sampler_next(cursor) == cursor + 1
sampler_state_dict(cursor) == cursor
sampler_load_state_dict(state) == state

\* the state of the processes of a freshly launched job of n workers
Launched(n) ==
    [wpc |-> [w \in 0 .. (n - 1) |-> "validate_config"],
     step |-> [w \in 0 .. (n - 1) |-> 0],
     epoch |-> [w \in 0 .. (n - 1) |-> 0],
     cumstats |-> [w \in 0 .. (n - 1) |-> None],
     sampler |-> [w \in 0 .. (n - 1) |-> sampler_new],
     data_files |-> [w \in 0 .. (n - 1) |-> None],
     ckpt_path |-> [w \in 0 .. (n - 1) |-> None],
     trained |-> [w \in 0 .. (n - 1) |-> 0],
     artifact_store |-> [data_files |-> None, actor_policy_ckpt |-> None],
     arrived |-> [w \in 0 .. (n - 1) |-> 0]]

\* a job of n workers launched without resume_id on an empty checkpoint
\* directory
DistInit(n, steps, ckpt_freq, epoch_len) ==
    /\ world_size = n
    /\ run = [steps |-> steps, ckpt_freq |-> ckpt_freq, epoch_len |-> epoch_len,
              resume_id |-> None]
    /\ nruns = 1
    /\ wpc = Launched(n).wpc
    /\ step = Launched(n).step
    /\ epoch = Launched(n).epoch
    /\ cumstats = Launched(n).cumstats
    /\ sampler = Launched(n).sampler
    /\ data_files = Launched(n).data_files
    /\ ckpt_path = Launched(n).ckpt_path
    /\ trained = Launched(n).trained
    /\ artifact_store = Launched(n).artifact_store
    /\ store_writers = [data_files |-> {}, actor_policy_ckpt |-> {}]
    /\ arrived = Launched(n).arrived
    /\ ckpt_files = << >>
    /\ latest = None
    /\ writes = << >>

\* no job is running (the other specifications)
NoDist == DistInit(1, 0, 1, 1)

\* ---------------------------------------------------- initialize_train
\* variant: only the first assertion is made
validate_config_FirstAssertOnly(w) ==
    /\ wpc[w] = "validate_config"
    /\ wpc' = [wpc EXCEPT ![w] =
                  IF config.batch_size % config.minibatch_size = 0
                  THEN "init_distrib" ELSE "AssertionError"]
    /\ UNCHANGED <<step, epoch, cumstats, sampler, data_files, ckpt_path, trained>>
    /\ UNCHANGED <<launch_vars, shared_vars, disk_vars>>
    /\ UNCHANGED beside_dist

\* self.validate_config(), the first statement of initialize_train: a failed
\* assertion ends train() in this worker
validate_config(w) ==
    /\ wpc[w] = "validate_config"
    /\ wpc' = [wpc EXCEPT ![w] =
                  IF ConfigValid THEN "init_distrib" ELSE "AssertionError"]
    /\ UNCHANGED <<step, epoch, cumstats, sampler, data_files, ckpt_path, trained>>
    /\ UNCHANGED <<launch_vars, shared_vars, disk_vars>>
    /\ UNCHANGED beside_dist

\* device, init_distrib_slurm, seeds, the artifact store
init_distrib(w) ==
    /\ wpc[w] = "init_distrib"
    /\ wpc' = [wpc EXCEPT ![w] = "setup_student"]
    /\ UNCHANGED <<step, epoch, cumstats, sampler, data_files, ckpt_path, trained>>
    /\ UNCHANGED <<launch_vars, shared_vars, disk_vars>>
    /\ UNCHANGED beside_dist

\* self.agent = self.setup_student(), optimizer and lr_scheduler
setup_student(w) ==
    /\ wpc[w] = "setup_student"
    /\ wpc' = [wpc EXCEPT ![w] = "rendezvous_data_files"]
    /\ UNCHANGED <<step, epoch, cumstats, sampler, data_files, ckpt_path, trained>>
    /\ UNCHANGED <<launch_vars, shared_vars, disk_vars>>
    /\ UNCHANGED beside_dist

\* rank 0 lists the dataset and sets "data_files"; every other worker waits
\* for the key, then gets, decodes and splits it
rendezvous_data_files(w) ==
    /\ wpc[w] = "rendezvous_data_files"
    /\ IF rank0_only(w)
       THEN \E files \in FileLists :
                /\ data_files' = [data_files EXCEPT ![w] = Some(files)]
                /\ artifact_store' = [artifact_store EXCEPT
                                          !.data_files = Some(Join(files))]
                /\ store_writers' = [store_writers EXCEPT
                                         !.data_files = @ \cup {w}]
       ELSE /\ artifact_store.data_files # None
            /\ data_files' = [data_files EXCEPT
                                 ![w] = Some(Split(artifact_store.data_files[1]))]
            /\ UNCHANGED <<artifact_store, store_writers>>
    /\ wpc' = [wpc EXCEPT ![w] = "build_data_loader"]
    /\ UNCHANGED <<step, epoch, cumstats, sampler, ckpt_path, trained>>
    /\ UNCHANGED <<launch_vars, arrived, disk_vars>>
    /\ UNCHANGED beside_dist

\* dataset, sampler and data loader; step, epoch and cumstats start at zero
build_data_loader(w) ==
    /\ wpc[w] = "build_data_loader"
    /\ sampler' = [sampler EXCEPT ![w] = sampler_new]
    /\ step' = [step EXCEPT ![w] = 0]
    /\ epoch' = [epoch EXCEPT ![w] = 0]
    /\ cumstats' = [cumstats EXCEPT
                       ![w] = Some([step |-> 0, epoch |-> 0, total_frames |-> 0])]
    /\ wpc' = [wpc EXCEPT ![w] = IF run.resume_id # None
                                 THEN "rendezvous_ckpt" ELSE "start_barrier"]
    /\ UNCHANGED <<data_files, ckpt_path, trained>>
    /\ UNCHANGED <<launch_vars, shared_vars, disk_vars>>
    /\ UNCHANGED beside_dist

\* resume: rank 0 loads the latest model artifact and sets
\* "actor_policy_ckpt"; every other worker waits for the key and gets it
rendezvous_ckpt(w) ==
    /\ wpc[w] = "rendezvous_ckpt"
    /\ IF rank0_only(w)
       THEN /\ latest # None
            /\ ckpt_path' = [ckpt_path EXCEPT ![w] = latest]
            /\ artifact_store' = [artifact_store EXCEPT
                                      !.actor_policy_ckpt = latest]
            /\ store_writers' = [store_writers EXCEPT
                                     !.actor_policy_ckpt = @ \cup {w}]
       ELSE /\ artifact_store.actor_policy_ckpt # None
            /\ ckpt_path' = [ckpt_path EXCEPT
                                ![w] = artifact_store.actor_policy_ckpt]
            /\ UNCHANGED <<artifact_store, store_writers>>
    /\ wpc' = [wpc EXCEPT ![w] = "load_checkpoint"]
    /\ UNCHANGED <<step, epoch, cumstats, sampler, data_files, trained>>
    /\ UNCHANGED <<launch_vars, arrived, disk_vars>>
    /\ UNCHANGED beside_dist

\* variant: the counters are not rehydrated from the loaded stats
load_checkpoint_KeepsCounters(w) ==
    /\ wpc[w] = "load_checkpoint"
    /\ sampler' = [sampler EXCEPT ![w] =
                      sampler_load_state_dict(ckpt_files[ckpt_path[w][1]].sampler)]
    /\ cumstats' = [cumstats EXCEPT ![w] = Some(ckpt_files[ckpt_path[w][1]].stats)]
    /\ wpc' = [wpc EXCEPT ![w] = "start_barrier"]
    /\ UNCHANGED <<step, epoch, data_files, ckpt_path, trained>>
    /\ UNCHANGED <<launch_vars, shared_vars, disk_vars>>
    /\ UNCHANGED beside_dist

\* load_checkpoint(ckpt_path): sampler state, cumstats, and step and epoch
\* taken from cumstats
load_checkpoint(w) ==
    /\ wpc[w] = "load_checkpoint"
    /\ sampler' = [sampler EXCEPT ![w] =
                      sampler_load_state_dict(ckpt_files[ckpt_path[w][1]].sampler)]
    /\ cumstats' = [cumstats EXCEPT ![w] = Some(ckpt_files[ckpt_path[w][1]].stats)]
    /\ step' = [step EXCEPT ![w] = ckpt_files[ckpt_path[w][1]].stats.step]
    /\ epoch' = [epoch EXCEPT ![w] = ckpt_files[ckpt_path[w][1]].stats.epoch]
    /\ wpc' = [wpc EXCEPT ![w] = "start_barrier"]
    /\ UNCHANGED <<data_files, ckpt_path, trained>>
    /\ UNCHANGED <<launch_vars, shared_vars, disk_vars>>
    /\ UNCHANGED beside_dist

\* -------------------------------------------------- collective calls
\* The workers make the same collective calls in the same order: the barrier
\* that ends initialize_train, then per training step the gradient
\* all-reduce of the synchronized backward, the barrier and the all_reduce
\* of update_stats.
\* variant: a collective call returns without waiting for the other workers
AllArrived_NoWait(w) == TRUE

\* a collective call of worker w can return: every worker has entered its
\* matching call
AllArrived(w) == \A v \in Workers : arrived[v] >= arrived[w]

\* torch.distributed.barrier(): the call is entered ...
barrier_enter(w) ==
    /\ wpc[w] \in {"start_barrier", "step_barrier"}
    /\ arrived' = [arrived EXCEPT ![w] = @ + 1]
    /\ wpc' = [wpc EXCEPT ![w] = IF wpc[w] = "start_barrier"
                                 THEN "start_barrier_wait" ELSE "step_barrier_wait"]
    /\ UNCHANGED <<step, epoch, cumstats, sampler, data_files, ckpt_path, trained>>
    /\ UNCHANGED <<launch_vars, artifact_store, store_writers, disk_vars>>
    /\ UNCHANGED beside_dist

\* ... and returns once every worker has entered its matching call
barrier_leave(w) ==
    /\ wpc[w] \in {"start_barrier_wait", "step_barrier_wait"}
    /\ AllArrived(w)
    /\ wpc' = [wpc EXCEPT ![w] = IF wpc[w] = "start_barrier_wait"
                                 THEN "while" ELSE "update_stats"]
    /\ UNCHANGED <<step, epoch, cumstats, sampler, data_files, ckpt_path, trained>>
    /\ UNCHANGED <<launch_vars, shared_vars, disk_vars>>
    /\ UNCHANGED beside_dist

\* ------------------------------------------------------ the train loop
\* while self.step < self.config.train.steps
while_step(w) ==
    /\ wpc[w] = "while"
    /\ wpc' = [wpc EXCEPT ![w] = IF step[w] < run.steps THEN "for" ELSE "done"]
    /\ UNCHANGED <<step, epoch, cumstats, sampler, data_files, ckpt_path, trained>>
    /\ UNCHANGED <<launch_vars, shared_vars, disk_vars>>
    /\ UNCHANGED beside_dist

\* variant: the loop over the batches is left as soon as the step limit is
\* reached
for_batch_BreaksAtLimit(w) ==
    /\ wpc[w] = "for"
    /\ IF sampler_has_next(sampler[w]) /\ step[w] < run.steps
       THEN /\ sampler' = [sampler EXCEPT ![w] = sampler_next(@)]
            /\ wpc' = [wpc EXCEPT ![w] = "train_bc_step"]
            /\ UNCHANGED epoch
       ELSE /\ sampler' = [sampler EXCEPT ![w] = sampler_new]
            /\ epoch' = [epoch EXCEPT ![w] = @ + 1]
            /\ wpc' = [wpc EXCEPT ![w] = "while"]
    /\ UNCHANGED <<step, cumstats, data_files, ckpt_path, trained>>
    /\ UNCHANGED <<launch_vars, shared_vars, disk_vars>>
    /\ UNCHANGED beside_dist

\* for batch in self.data_loader: the sampler hands out the batches left in
\* the epoch and train_bc_step is entered; when none is left the epoch ends
\* (self.epoch += 1) and the sampler starts over
for_batch(w) ==
    /\ wpc[w] = "for"
    /\ IF sampler_has_next(sampler[w])
       THEN /\ sampler' = [sampler EXCEPT ![w] = sampler_next(@)]
            /\ wpc' = [wpc EXCEPT ![w] = "train_bc_step"]
            /\ UNCHANGED epoch
       ELSE /\ sampler' = [sampler EXCEPT ![w] = sampler_new]
            /\ epoch' = [epoch EXCEPT ![w] = @ + 1]
            /\ wpc' = [wpc EXCEPT ![w] = "while"]
    /\ UNCHANGED <<step, cumstats, data_files, ckpt_path, trained>>
    /\ UNCHANGED <<launch_vars, shared_vars, disk_vars>>
    /\ UNCHANGED beside_dist

\* train_bc_step(batch) up to the loss.backward() outside no_sync(): the
\* gradient all-reduce is entered (the jobs of TrainConfigs that pass
\* validate_config have one such backward per batch)
sync_backward(w) ==
    /\ wpc[w] = "train_bc_step"
    /\ arrived' = [arrived EXCEPT ![w] = @ + 1]
    /\ wpc' = [wpc EXCEPT ![w] = "sync_backward"]
    /\ UNCHANGED <<step, epoch, cumstats, sampler, data_files, ckpt_path, trained>>
    /\ UNCHANGED <<launch_vars, artifact_store, store_writers, disk_vars>>
    /\ UNCHANGED beside_dist

\* the gradients of all workers are combined, train_bc_step(batch) returns
\* (its optimizer steps are done), then self.lr_scheduler.step()
train_bc_step(w) ==
    /\ wpc[w] = "sync_backward"
    /\ AllArrived(w)
    /\ trained' = [trained EXCEPT ![w] = @ + 1]
    /\ wpc' = [wpc EXCEPT ![w] = "step_barrier"]
    /\ UNCHANGED <<step, epoch, cumstats, sampler, data_files, ckpt_path>>
    /\ UNCHANGED <<launch_vars, shared_vars, disk_vars>>
    /\ UNCHANGED beside_dist

\* update_stats up to all_reduce(episode_stats): the call is entered
all_reduce(w) ==
    /\ wpc[w] = "update_stats"
    /\ arrived' = [arrived EXCEPT ![w] = @ + 1]
    /\ wpc' = [wpc EXCEPT ![w] = "all_reduce"]
    /\ UNCHANGED <<step, epoch, cumstats, sampler, data_files, ckpt_path, trained>>
    /\ UNCHANGED <<launch_vars, artifact_store, store_writers, disk_vars>>
    /\ UNCHANGED beside_dist

\* variant: every worker saves the checkpoint
update_stats_AllSave(w) ==
    /\ wpc[w] = "all_reduce"
    /\ AllArrived(w)
    /\ cumstats' = [cumstats EXCEPT
                       ![w] = Some([step |-> step[w],
                                    epoch |-> epoch[w],
                                    total_frames |-> @[1].total_frames + world_size])]
    /\ wpc' = [wpc EXCEPT ![w] =
                  IF step[w] % run.ckpt_freq = 0
                  THEN "save_checkpoint" ELSE "step_inc"]
    /\ UNCHANGED <<step, epoch, sampler, data_files, ckpt_path, trained>>
    /\ UNCHANGED <<launch_vars, shared_vars, disk_vars>>
    /\ UNCHANGED beside_dist

\* stats = self.update_stats(stats): all_reduce returns, cumstats takes the current step and
\* epoch, total_frames grows by the frames of the batch over all workers
\* (one frame per worker here); then rank 0 writes the stats and decides
\* whether this step is checkpointed
update_stats(w) ==
    /\ wpc[w] = "all_reduce"
    /\ AllArrived(w)
    /\ cumstats' = [cumstats EXCEPT
                       ![w] = Some([step |-> step[w],
                                    epoch |-> epoch[w],
                                    total_frames |-> @[1].total_frames + world_size])]
    /\ wpc' = [wpc EXCEPT ![w] =
                  IF rank0_only(w) /\ step[w] % run.ckpt_freq = 0
                  THEN "save_checkpoint" ELSE "step_inc"]
    /\ UNCHANGED <<step, epoch, sampler, data_files, ckpt_path, trained>>
    /\ UNCHANGED <<launch_vars, shared_vars, disk_vars>>
    /\ UNCHANGED beside_dist

\* save_checkpoint, first half: the save object is written to
\* ckpt.<step // ckpt_freq>.pth
save_checkpoint(w) ==
    /\ wpc[w] = "save_checkpoint"
    /\ ckpt_files' = ((step[w] \div run.ckpt_freq) :>
                          [sampler |-> sampler_state_dict(sampler[w]),
                           stats |-> cumstats[w][1]])
                     @@ ckpt_files
    /\ writes' = Append(writes, [rank |-> w,
                                 index |-> step[w] \div run.ckpt_freq,
                                 step |-> step[w],
                                 epoch |-> epoch[w],
                                 total_frames |-> cumstats[w][1].total_frames,
                                 sampler |-> sampler[w],
                                 run |-> nruns])
    /\ wpc' = [wpc EXCEPT ![w] = "save_artifact"]
    /\ UNCHANGED latest
    /\ UNCHANGED <<step, epoch, cumstats, sampler, data_files, ckpt_path, trained>>
    /\ UNCHANGED <<launch_vars, shared_vars>>
    /\ UNCHANGED beside_dist

\* save_checkpoint, second half: the file becomes the latest model artifact
save_artifact(w) ==
    /\ wpc[w] = "save_artifact"
    /\ latest' = Some(step[w] \div run.ckpt_freq)
    /\ wpc' = [wpc EXCEPT ![w] = "step_inc"]
    /\ UNCHANGED <<ckpt_files, writes>>
    /\ UNCHANGED <<step, epoch, cumstats, sampler, data_files, ckpt_path, trained>>
    /\ UNCHANGED <<launch_vars, shared_vars>>
    /\ UNCHANGED beside_dist

\* self.step += 1
step_inc(w) ==
    /\ wpc[w] = "step_inc"
    /\ step' = [step EXCEPT ![w] = @ + 1]
    /\ wpc' = [wpc EXCEPT ![w] = "for"]
    /\ UNCHANGED <<epoch, cumstats, sampler, data_files, ckpt_path, trained>>
    /\ UNCHANGED <<launch_vars, shared_vars, disk_vars>>
    /\ UNCHANGED beside_dist

\* the job ends (finished or killed, at any point) and is launched again
\* with exp.resume_id set; the checkpoint directory and the writer's
\* artifacts persist
Relaunch ==
    /\ nruns < MaxRuns
    /\ latest # None
    /\ nruns' = nruns + 1
    /\ run' = [run EXCEPT !.resume_id = Some(1)]
    /\ wpc' = Launched(world_size).wpc
    /\ step' = Launched(world_size).step
    /\ epoch' = Launched(world_size).epoch
    /\ cumstats' = Launched(world_size).cumstats
    /\ sampler' = Launched(world_size).sampler
    /\ data_files' = Launched(world_size).data_files
    /\ ckpt_path' = Launched(world_size).ckpt_path
    /\ trained' = Launched(world_size).trained
    /\ artifact_store' = Launched(world_size).artifact_store
    /\ arrived' = Launched(world_size).arrived
    /\ UNCHANGED <<world_size, store_writers, disk_vars>>
    /\ UNCHANGED beside_dist

\* ======================================================= BCTrainer.eval
\* One checkpoint is evaluated; its stats file is <eval_dir>/<ckpt_name>/
\* stats.pkl both where eval() looks for it and where eval_checkpoint
\* writes it.
EvalEnvs == 0 .. (eval_cfg.num_envs - 1)

\* stats of a checkpoint never evaluated before
ZeroStats == [total_episodes |-> 0, successful_episodes |-> 0]

\* what envs.step reports for one environment: the episode goes on, or it
\* is done with distance_to_goal below ("success") or not below ("failure")
\* eval.dtg_threshold
Outcomes == {"running", "success", "failure"}

\* a trainer about to run eval(), the stats file absent
EvalInit(n_episodes, n_envs, save_videos) ==
    /\ eval_cfg = [num_episodes |-> n_episodes, num_envs |-> n_envs,
                   save_videos |-> save_videos]
    /\ epc = "eval"
    /\ stats = None
    /\ stats_exists = FALSE
    /\ stats_file = None
    /\ outcomes = [i \in 0 .. (n_envs - 1) |-> "running"]
    /\ ei = 0
    /\ nevals = 0
    /\ nsteps = 0
    /\ video_errors = 0
    /\ episodes = [i \in 0 .. (n_envs - 1) |-> 0]

\* no evaluation is running (the other specifications)
NoEval == EvalInit(1, 1, FALSE)

\* eval(): prev_stats is the unpickled stats file if it exists, else None;
\* pickle.load of a file that holds no complete pickle raises EOFError and
\* eval() ends; eval_checkpoint starts from zero counters, or from
\* prev_stats if given, with episodes = [[], ...] and dones = [False, ...]
eval ==
    /\ epc = "eval"
    /\ nevals < MaxEvals
    /\ IF stats_exists /\ stats_file = None
       THEN stats' = None /\ epc' = "EOFError"
       ELSE /\ stats' = IF stats_exists THEN stats_file ELSE Some(ZeroStats)
            /\ epc' = "while"
    /\ nevals' = nevals + 1
    /\ nsteps' = 0
    /\ ei' = 0
    /\ episodes' = [i \in EvalEnvs |-> 0]
    /\ outcomes' = [i \in EvalEnvs |-> "running"]
    /\ UNCHANGED <<eval_cfg, stats_exists, stats_file, video_errors>>
    /\ UNCHANGED beside_eval

\* variant: the loop goes on while total_episodes <= N_episodes
eval_while_Inclusive ==
    /\ epc = "while"
    /\ epc' = IF stats[1].total_episodes <= eval_cfg.num_episodes
              THEN "envs_step" ELSE "done"
    /\ UNCHANGED <<eval_cfg, stats, stats_exists, stats_file, outcomes, ei,
                   nevals, nsteps, video_errors, episodes>>
    /\ UNCHANGED beside_eval

\* while stats[total_episodes] < N_episodes
eval_while ==
    /\ epc = "while"
    /\ epc' = IF stats[1].total_episodes < eval_cfg.num_episodes
              THEN "envs_step" ELSE "done"
    /\ UNCHANGED <<eval_cfg, stats, stats_exists, stats_file, outcomes, ei,
                   nevals, nsteps, video_errors, episodes>>
    /\ UNCHANGED beside_eval

\* the actor acts and self.envs.step(actions) reports dones and infos; one
\* record is appended to the list of every environment
envs_step ==
    /\ epc = "envs_step"
    /\ nsteps < MaxEvalSteps
    /\ outcomes' \in [EvalEnvs -> Outcomes]
    /\ nsteps' = nsteps + 1
    /\ ei' = 0
    /\ epc' = "for_dones"
    /\ episodes' = [i \in EvalEnvs |-> episodes[i] + 1]
    /\ UNCHANGED <<eval_cfg, stats, stats_exists, stats_file, nevals,
                   video_errors>>
    /\ UNCHANGED beside_eval

\* for i, done in enumerate(dones): an environment that is not done is
\* skipped; a finished episode is counted, and counted as successful when
\* distance_to_goal is below the threshold; then its video, if videos are
\* saved, else its list is cleared (episodes[i] = [])
for_dones ==
    /\ epc = "for_dones"
    /\ ei < eval_cfg.num_envs
    /\ IF outcomes[ei] = "running"
       THEN /\ ei' = ei + 1
            /\ UNCHANGED <<stats, epc, episodes>>
       ELSE /\ stats' = Some([total_episodes |-> stats[1].total_episodes + 1,
                              successful_episodes |->
                                  stats[1].successful_episodes
                                  + (IF outcomes[ei] = "success" THEN 1 ELSE 0)])
            /\ IF eval_cfg.save_videos
               THEN epc' = "save_video" /\ ei' = ei /\ episodes' = episodes
               ELSE /\ epc' = epc /\ ei' = ei + 1
                    /\ episodes' = [episodes EXCEPT ![ei] = 0]
    /\ UNCHANGED <<eval_cfg, stats_exists, stats_file, outcomes, nevals,
                   nsteps, video_errors>>
    /\ UNCHANGED beside_eval

\* variant: no handler around save_episode_video; its exception ends
\* eval_checkpoint
save_episode_video_Uncaught ==
    /\ epc = "save_video"
    /\ \E failed \in BOOLEAN :
           IF failed
           THEN /\ video_errors' = video_errors + 1
                /\ epc' = "Exception"
                /\ UNCHANGED <<ei, episodes>>
           ELSE /\ video_errors' = video_errors
                /\ ei' = ei + 1
                /\ episodes' = [episodes EXCEPT ![ei] = 0]
                /\ epc' = "for_dones"
    /\ UNCHANGED <<eval_cfg, stats, stats_exists, stats_file, outcomes,
                   nevals, nsteps>>
    /\ UNCHANGED beside_eval

\* try: save_episode_video(...) except: print(...): the video is written, or
\* an exception is caught and reported; either way episodes[i] = [] follows
\* and the loop goes on
save_episode_video ==
    /\ epc = "save_video"
    /\ \E failed \in BOOLEAN :
           video_errors' = IF failed THEN video_errors + 1 ELSE video_errors
    /\ ei' = ei + 1
    /\ episodes' = [episodes EXCEPT ![ei] = 0]
    /\ epc' = "for_dones"
    /\ UNCHANGED <<eval_cfg, stats, stats_exists, stats_file, outcomes,
                   nevals, nsteps>>
    /\ UNCHANGED beside_eval

\* the loop over dones is exhausted; observations = next_observations
for_dones_end ==
    /\ epc = "for_dones"
    /\ ei >= eval_cfg.num_envs
    /\ epc' = "open_stats"
    /\ UNCHANGED <<eval_cfg, stats, stats_exists, stats_file, outcomes, ei,
                   nevals, nsteps, video_errors, episodes>>
    /\ UNCHANGED beside_eval

\* open(<eval_dir>/stats.pkl, 'wb+'): the file is created if absent and
\* truncated to length 0
open_stats ==
    /\ epc = "open_stats"
    /\ stats_exists' = TRUE
    /\ stats_file' = None
    /\ epc' = "dump"
    /\ UNCHANGED <<eval_cfg, stats, outcomes, ei, nevals, nsteps, video_errors,
                   episodes>>
    /\ UNCHANGED beside_eval

\* pickle.dump(stats, f) and the close of the file, the last statement of
\* the while body
dump_stats ==
    /\ epc = "dump"
    /\ stats_file' = stats
    /\ epc' = "while"
    /\ UNCHANGED <<eval_cfg, stats, stats_exists, outcomes, ei, nevals, nsteps,
                   video_errors, episodes>>
    /\ UNCHANGED beside_eval

\* the evaluation ends (finished or killed, at any point) and eval() is run
\* again on the same checkpoint; the stats file persists
EvalAgain ==
    /\ epc # "eval"
    /\ nevals < MaxEvals
    /\ epc' = "eval"
    /\ stats' = None
    /\ UNCHANGED <<eval_cfg, stats_exists, stats_file, outcomes, ei, nevals,
                   nsteps, video_errors, episodes>>
    /\ UNCHANGED beside_eval

\* -------------------------------------------- train_bc_step: padding
\* Tensors along the time dimension are sequences (1-based); a frame is one
\* value, the zero frame is 0.
\* torch.ones(n), torch.zeros(n)
Ones(n) == [i \in 1 .. n |-> 1]
ZerosVec(n) == [i \in 1 .. n |-> 0]

\* t.bool()
Bool(t) == [i \in 1 .. Len(t) |-> t[i] # 0]

\* variant: the padding is put in front of the sequence
F_pad_Front(t, left, right, value) ==
    [i \in 1 .. right |-> value] \o t \o [i \in 1 .. left |-> value]

\* F.pad(t, (..., left, right), 'constant', value) along the time dimension,
\* for left >= 0 and right >= 0: (0,)*7 + (n,) pads a t-c-h-w tensor with n
\* frames after its last frame, (0, n) pads an action vector with n entries
\* after its last entry
F_pad(t, left, right, value) ==
    [i \in 1 .. left |-> value] \o t \o [i \in 1 .. right |-> value]

\* no minibatch is being padded (the other specifications)
NoPad ==
    /\ T = 1
    /\ minibatch = [rgbs |-> <<>>, actions |-> <<>>]
    /\ mask_t = None
    /\ rgbs_t = None
    /\ actions_t = None
    /\ padpc = "construct"

\* "pad inputs to T": mask_t, rgbs_t and actions_t of one minibatch, each
\* stacked over the sub-sequences of the minibatch
pad_inputs ==
    /\ padpc = "construct"
    /\ Len(minibatch.rgbs) > 0
    /\ mask_t' = Some([i \in 1 .. Len(minibatch.rgbs) |->
                        Bool(Ones(Len(minibatch.rgbs[i]))
                             \o ZerosVec(T - Len(minibatch.rgbs[i])))])
    /\ rgbs_t' = Some([i \in 1 .. Len(minibatch.rgbs) |->
                        F_pad(minibatch.rgbs[i], 0, T - Len(minibatch.rgbs[i]), 0)])
    /\ actions_t' = Some([i \in 1 .. Len(minibatch.actions) |->
                        F_pad(minibatch.actions[i], 0, T - Len(minibatch.actions[i]), 0)])
    /\ padpc' = "padded"
    /\ UNCHANGED <<T, minibatch>>
    /\ UNCHANGED beside_pad

\* what apply_transforms_inputs can do to one frame or to one action: the
\* function is not part of the sources and is only known as a
\* "normalization/transform step"; any map of the values to values, applied
\* at every position alike, is allowed for
Transforms == [{0, 1} -> {0, 1}]

\* rgbs_t, goals_t, actions_t = apply_transforms_inputs(self.vis_processor,
\* rgbs_t, goals_t, actions_t): rgbs_t and actions_t are bound to what the
\* transform returns; mask_t is neither passed nor rebound
apply_transforms_inputs ==
    /\ padpc = "padded"
    /\ \E f \in Transforms, h \in Transforms :
           /\ rgbs_t' = Some([i \in 1 .. Len(rgbs_t[1]) |->
                               [k \in 1 .. Len(rgbs_t[1][i]) |-> f[rgbs_t[1][i][k]]]])
           /\ actions_t' = Some([i \in 1 .. Len(actions_t[1]) |->
                               [k \in 1 .. Len(actions_t[1][i]) |->
                                   h[actions_t[1][i][k]]]])
    /\ padpc' = "transformed"
    /\ UNCHANGED <<T, minibatch, mask_t>>
    /\ UNCHANGED beside_pad

\* the steps a sub-sequence is made of, as <<frame, action>>: a black frame
\* with a move, a lit frame with stop (action 0)
StepKinds == {<<0, 1>>, <<1, 0>>}

\* the sub-sequences of at most n steps (construct_subsequences cuts the
\* episodes into pieces of at most T steps)
SubSeqs(n) == UNION {[1 .. len -> StepKinds] : len \in 1 .. n}

InitPad ==
    /\ StorageInit(1, 1, "cpu")
    /\ NoTrainer
    /\ T \in 1 .. MaxTrajLen
    /\ \E n \in 1 .. MaxMinibatch : \E ss \in [1 .. n -> SubSeqs(T)] :
           minibatch = [rgbs |-> [i \in 1 .. n |-> [k \in 1 .. Len(ss[i]) |-> ss[i][k][1]]],
                        actions |-> [i \in 1 .. n |-> [k \in 1 .. Len(ss[i]) |-> ss[i][k][2]]]]
    /\ mask_t = None
    /\ rgbs_t = None
    /\ actions_t = None
    /\ padpc = "construct"
    /\ NoDist
    /\ NoEval

NextPad ==
    \/ pad_inputs
    \/ apply_transforms_inputs

SpecPad == InitPad /\ [][NextPad]_vars

\* the distributed run
InitDist ==
    /\ StorageInit(1, 1, "cpu")
    /\ \E c \in TrainConfigs : TrainerInit(c[1], c[2], c[3], None)
    /\ NoPad
    /\ \E n \in 1 .. MaxWorkers, steps \in 0 .. MaxTrainSteps,
          ckpt_freq \in 1 .. MaxCkptFreq, epoch_len \in 1 .. MaxEpochLen :
           DistInit(n, steps, ckpt_freq, epoch_len)
    /\ NoEval

\* the evaluation of one checkpoint
InitEval ==
    /\ StorageInit(1, 1, "cpu")
    /\ NoTrainer
    /\ NoPad
    /\ NoDist
    /\ \E n_episodes \in 1 .. MaxEpisodes, n_envs \in 1 .. MaxEvalEnvs,
          save_videos \in BOOLEAN :
           EvalInit(n_episodes, n_envs, save_videos)

NextEval ==
    \/ eval
    \/ eval_while
    \/ envs_step
    \/ for_dones
    \/ save_episode_video
    \/ for_dones_end
    \/ open_stats
    \/ dump_stats
    \/ EvalAgain

SpecEval == InitEval /\ [][NextEval]_vars

NextDist ==
    \/ \E w \in Workers : validate_config(w)
    \/ \E w \in Workers : init_distrib(w)
    \/ \E w \in Workers : setup_student(w)
    \/ \E w \in Workers : rendezvous_data_files(w)
    \/ \E w \in Workers : build_data_loader(w)
    \/ \E w \in Workers : rendezvous_ckpt(w)
    \/ \E w \in Workers : load_checkpoint(w)
    \/ \E w \in Workers : barrier_enter(w)
    \/ \E w \in Workers : barrier_leave(w)
    \/ \E w \in Workers : while_step(w)
    \/ \E w \in Workers : for_batch(w)
    \/ \E w \in Workers : sync_backward(w)
    \/ \E w \in Workers : train_bc_step(w)
    \/ \E w \in Workers : all_reduce(w)
    \/ \E w \in Workers : update_stats(w)
    \/ \E w \in Workers : save_checkpoint(w)
    \/ \E w \in Workers : save_artifact(w)
    \/ \E w \in Workers : step_inc(w)
    \/ Relaunch

SpecDist == InitDist /\ [][NextDist]_vars

\* jobs that save a checkpoint at every step, so that a relaunch can resume
\* from any step
InitDistFair ==
    /\ StorageInit(1, 1, "cpu")
    /\ \E c \in TrainConfigs : TrainerInit(c[1], c[2], c[3], None)
    /\ NoPad
    /\ \E n \in 1 .. MaxWorkers, steps \in 0 .. MaxTrainSteps,
          epoch_len \in 1 .. MaxEpochLen :
           DistInit(n, steps, 1, epoch_len)
    /\ NoEval

\* the steps of train() in worker w
WorkerStep(w) ==
    \/ validate_config(w)
    \/ init_distrib(w)
    \/ setup_student(w)
    \/ rendezvous_data_files(w)
    \/ build_data_loader(w)
    \/ rendezvous_ckpt(w)
    \/ load_checkpoint(w)
    \/ barrier_enter(w)
    \/ barrier_leave(w)
    \/ while_step(w)
    \/ for_batch(w)
    \/ sync_backward(w)
    \/ train_bc_step(w)
    \/ all_reduce(w)
    \/ update_stats(w)
    \/ save_checkpoint(w)
    \/ save_artifact(w)
    \/ step_inc(w)

\* the job keeps running: while some worker can take its next step, a worker
\* eventually takes one; nothing forces a relaunch
SpecDistFair ==
    InitDistFair /\ [][NextDist]_vars /\ WF_vars(\E w \in Workers : WorkerStep(w))

InitTrain ==
    /\ StorageInit(1, 1, "cpu")
    /\ NoPad
    /\ NoDist
    /\ NoEval
    /\ \E bs \in 1 .. MaxBatchSize, mbs \in 1 .. MaxBatchSize,
          nga \in 1 .. MaxGradAccums, mgn \in {None, Some(1)} :
           TrainerInit(bs, mbs, nga, mgn)

NextTrain ==
    \/ initialize_train
    \/ train_bc_step_enter
    \/ for_mb
    \/ backward
    \/ clip_grad_norm
    \/ optim_step
    \/ zero_grad
    \/ train_bc_step_return

SpecTrain == InitTrain /\ [][NextTrain]_vars

\* ------------------------------------------------------ call arguments
\* payload of token k for environment b; each buffer has its own range
FrameOf(k) == [b \in Envs |-> 10 * k + b]
GoalOf(k) == [b \in Envs |-> 100 + 10 * k + b]
ActionOf(k) == [b \in Envs |-> 1 + ((k + b) % 3)]
RewardOf(k) == [b \in Envs |-> 200 + 10 * k + b]
FlagsOf(k) == [b \in Envs |-> (k + b) % 2 = 1]

\* the payloads an insert can carry
Tokens == {1, 2}
Opt(given, v) == IF given THEN Some(v) ELSE None

\* ----------------------------------------------------- specifications
\* Buffer contents: every combination of optional arguments, payloads
\* drawn from the tokens, runs of at most MaxCalls calls.
\* the optional arguments of insert, and the combinations calls pass: none,
\* any single one, or all four
OptArgs == {"dones", "actions", "rewards", "successes"}
ArgSets == {{}} \cup {{a} : a \in OptArgs} \cup {OptArgs}

\* the call insert(frames, goals, ...) carrying token k and passing exactly
\* the optional arguments in given
InsertWith(k, given) ==
    /\ ncalls < MaxCalls
    /\ insert(FrameOf(k), GoalOf(k),
              Opt("dones" \in given, FlagsOf(k)),
              Opt("actions" \in given, ActionOf(k)),
              Opt("rewards" \in given, RewardOf(k)),
              Opt("successes" \in given, FlagsOf(k + 1)))
    /\ ncalls' = ncalls + 1
    /\ accepted' = IF raised' = "none" THEN accepted + 1 ELSE accepted
    /\ UNCHANGED <<carry, device, at_to_cpu>>
    /\ UNCHANGED beside_storage

Insert == \E k \in Tokens, given \in ArgSets : InsertWith(k, given)

Reset ==
    /\ ncalls < MaxCalls
    /\ reset
    /\ ncalls' = ncalls + 1
    /\ accepted' = 0
    /\ UNCHANGED <<device, at_to_cpu>>
    /\ UNCHANGED beside_storage

Init ==
    /\ \E ne \in 1 .. MaxEnvs, ms \in 1 .. MaxHorizonBuf : StorageInit(ne, ms, "cpu")
    /\ NoTrainer
    /\ NoPad
    /\ NoDist
    /\ NoEval

Next == Insert \/ Reset

Spec == Init /\ [][Next]_vars

\* Residency: storages built on the host or on an accelerator, inserts that
\* pass every argument, resets and to_cpu() calls, in runs of at most
\* MaxCalls calls.
Devices == {"cpu", "cuda"}

InsertAll == \E k \in Tokens : InsertWith(k, OptArgs)

ToCpu ==
    /\ ncalls < MaxCalls
    /\ to_cpu
    /\ ncalls' = ncalls + 1
    /\ UNCHANGED <<carry, accepted>>
    /\ UNCHANGED beside_storage

InitDev ==
    /\ \E ne \in 1 .. MaxEnvs, ms \in 1 .. MaxHorizonBuf, dev \in Devices :
           StorageInit(ne, ms, dev)
    /\ NoTrainer
    /\ NoPad
    /\ NoDist
    /\ NoEval

NextDev == InsertAll \/ Reset \/ ToCpu

SpecDev == InitDev /\ [][NextDev]_vars

\* Segmentation: every done vector, with or without the done argument,
\* unbounded runs; the other buffers carry one payload.
InsertDones ==
    /\ \E d \in {None} \cup {Some(f) : f \in [Envs -> BOOLEAN]} :
           insert(FrameOf(1), GoalOf(1), d, None, None, None)
    /\ accepted' = IF raised' = "none" THEN accepted + 1 ELSE accepted
    /\ UNCHANGED <<carry, ncalls, device, at_to_cpu>>
    /\ UNCHANGED beside_storage

ResetDones ==
    /\ reset
    /\ accepted' = 0
    /\ UNCHANGED <<ncalls, device, at_to_cpu>>
    /\ UNCHANGED beside_storage

InitSeg ==
    /\ \E ne \in 1 .. MaxEnvs, ms \in 1 .. MaxHorizon : StorageInit(ne, ms, "cpu")
    /\ NoTrainer
    /\ NoPad
    /\ NoDist
    /\ NoEval

NextSeg == InsertDones \/ ResetDones

SpecSeg == InitSeg /\ [][NextSeg]_vars

\* =================================================================== claims

\* the indices a slice <<start, stop>> selects
IdxOf(s) == {j \in 0 .. (max_steps + 1) : s[1] <= j /\ j < s[2]}

\* the True entries of the dones row of environment b
TrueSet(b) == {i \in 0 .. max_steps : dones[b][i]}

\* C1 (as stated): in every reachable state the segments generate_samples()
\* builds for each environment are contiguous, pairwise non-overlapping and
\* their union is exactly [0, max_steps - 1].
C1_SegmentsPartitionHorizon ==
    \A b \in Envs :
        LET s == slices(b)
        IN  /\ \A i \in 1 .. (Len(s) - 1) : s[i + 1][1] = s[i][2]
            /\ \A i, j \in 1 .. Len(s) : i # j => IdxOf(s[i]) \cap IdxOf(s[j]) = {}
            /\ UNION {IdxOf(s[i]) : i \in 1 .. Len(s)} = 0 .. (max_steps - 1)

\* the i-th smallest element of a finite set of integers
Nth(S, i) == CHOOSE x \in S : Cardinality({y \in S : y < x}) = i - 1

\* the segments (-1, d1], (d1, d2], ... of a horizon whose dones are D, as
\* <<first index, last index>>: one per boundary in D \cup {max_steps - 1}
ExpectedSegments(D) ==
    LET B == D \cup {max_steps - 1}
        sorted == [i \in 1 .. Cardinality(B) |-> Nth(B, i)]
    IN  [i \in 1 .. Len(sorted) |->
            <<IF i = 1 THEN 0 ELSE sorted[i - 1] + 1, sorted[i]>>]

\* the samples of environment b, in emission order, as <<first, last>>
SegmentsOf(keys, b) ==
    LET mine == SelectSeq(keys, LAMBDA key : key[1] = b)
    IN  [i \in 1 .. Len(mine) |-> <<mine[i][2][1], mine[i][2][2] - 1>>]

SegmentsOfEnv(b) == SegmentsOf(SampleKeys(num_envs), b)

\* buffer entries first..last of a row
Range(row, first, last) == [k \in 1 .. (last - first + 1) |-> row[first + k - 1]]

\* C2: for every environment whose dones are True exactly at d1 < ... < dk,
\* all within [0, max_steps - 1], generate_samples() returns the segments
\* (-1, d1], ..., in increasing order: k + 1 of them ending with
\* (dk, max_steps - 1] when dk # max_steps - 1 (one segment when k = 0), k of
\* them when dk = max_steps - 1; each sample holds the buffers' entries of its
\* segment, and samples are emitted environment by environment.
C2_SegmentsFollowDones ==
    LET keys == SampleKeys(num_envs)
        out == generate_samples
    IN  /\ \A i, j \in 1 .. Len(keys) : i < j => keys[i][1] <= keys[j][1]
        /\ \A j \in 1 .. 6 : Len(out[j]) = Len(keys)
        /\ \A b \in Envs :
               LET D == TrueSet(b)
                   segs == SegmentsOf(keys, b)
               IN  D \subseteq 0 .. (max_steps - 1) =>
                       /\ segs = ExpectedSegments(D)
                       /\ Len(segs) = IF (max_steps - 1) \in D
                                      THEN Cardinality(D)
                                      ELSE Cardinality(D) + 1
                       /\ \A i \in 1 .. Len(keys) :
                              keys[i][1] = b =>
                                  LET first == keys[i][2][1]
                                      last == keys[i][2][2] - 1
                                  IN  /\ out[1][i] = Range(rgbs[b], first, last)
                                      /\ out[2][i] = Range(goals[b], first, last)
                                      /\ out[3][i] = Range(actions[b], first, last)
                                      /\ out[4][i] = Range(rewards[b], first, last)
                                      /\ out[5][i] = Range(dones[b], first, last)
                                      /\ out[6][i] = Range(successes[b], first, last)

\* C2 witness: max_steps = 3, environment 0 done only at the last step (one
\* segment), environment 1 done at step 0 only (two segments).
C2_Witness ==
    /\ num_envs = 2
    /\ max_steps = 3
    /\ TrueSet(0) = {2}
    /\ TrueSet(1) = {0}
    /\ SegmentsOfEnv(0) = <<(<<0, 2>>)>>
    /\ SegmentsOfEnv(1) = <<(<<0, 0>>), (<<1, 2>>)>>

\* C7 (as stated): every sample of generate_samples() is aligned across the
\* six buffers: the six slices have the same length, which is at least 1.
C7_SamplesAligned ==
    LET out == generate_samples
    IN  \A i \in 1 .. Len(out[1]) :
            /\ Len(out[1][i]) >= 1
            /\ \A j \in 2 .. 6 : Len(out[j][i]) = Len(out[1][i])

\* the slot the index i names in a dimension of size n: i itself, or n + i for
\* a negative i (the index -1 names the last slot)
Names(i, n, slot) == slot = i \/ (i < 0 /\ slot = n + i)

\* what a successful insert of token k leaves in buffer t (new value t2, size
\* n): the payload v at the slot named at, given that the argument was
\* passed, and every other slot as it was
WrittenOnlyAt(t, t2, n, given, at, v) ==
    \A b \in Envs : \A i \in 0 .. (n - 1) :
        t2[b][i] = IF given /\ Names(at, n, i) THEN v[b] ELSE t[b][i]

\* C3: a successful insert writes next_rgbs/next_goals for all environments
\* at index current_step_idx + 1, each of dones/actions/rewards/successes
\* that is passed at index current_step_idx, leaves every other slot (and a
\* buffer whose argument is not passed) as it was, and advances the cursor by
\* exactly one.
C3_InsertWritesOnlyItsSlots ==
    [][\A k \in Tokens, given \in ArgSets :
          (InsertWith(k, given) /\ raised' = "none") =>
              /\ WrittenOnlyAt(rgbs, rgbs', max_steps + 1, TRUE,
                               current_step_idx + 1, FrameOf(k))
              /\ WrittenOnlyAt(goals, goals', max_steps + 1, TRUE,
                               current_step_idx + 1, GoalOf(k))
              /\ WrittenOnlyAt(dones, dones', max_steps + 1, "dones" \in given,
                               current_step_idx, FlagsOf(k))
              /\ WrittenOnlyAt(actions, actions', max_steps + 1, "actions" \in given,
                               current_step_idx, ActionOf(k))
              /\ WrittenOnlyAt(rewards, rewards', max_steps + 1, "rewards" \in given,
                               current_step_idx, RewardOf(k))
              /\ WrittenOnlyAt(successes, successes', max_steps, "successes" \in given,
                               current_step_idx, FlagsOf(k + 1))
              /\ current_step_idx' = current_step_idx + 1
              /\ num_envs' = num_envs /\ max_steps' = max_steps]_vars

\* C3 witness: an insert in the middle of a horizon has written an action, a
\* reward and a done flag at the slot before the cursor and the observation
\* at the cursor, with the next slot still untouched.
C3_Witness ==
    /\ max_steps = 2
    /\ current_step_idx = 1
    /\ raised = "none"
    /\ \E k \in Tokens :
           /\ GetCol(rgbs, 1, max_steps + 1) = FrameOf(k)
           /\ GetCol(actions, 0, max_steps + 1) = ActionOf(k)
           /\ GetCol(rewards, 0, max_steps + 1) = RewardOf(k)
           /\ GetCol(dones, 0, max_steps + 1) = FlagsOf(k)
    /\ \A b \in Envs : rgbs[b][2] = 0 /\ actions[b][1] = 0 /\ ~successes[b][0]

\* C4: an insert issued with the cursor at max_steps raises (IndexError),
\* writes no buffer slot and does not advance the cursor.
C4_OverrunIsFatal ==
    [][\A k \in Tokens, given \in ArgSets :
          (current_step_idx = max_steps /\ InsertWith(k, given)) =>
              /\ raised' = "IndexError"
              /\ rgbs' = rgbs /\ goals' = goals /\ actions' = actions
              /\ dones' = dones /\ rewards' = rewards /\ successes' = successes
              /\ current_step_idx' = current_step_idx]_vars

\* C4 witness: an insert has been refused on a full horizon that holds data.
C4_Witness ==
    /\ raised = "IndexError"
    /\ current_step_idx = max_steps
    /\ \A b \in Envs : rgbs[b][max_steps] # 0

\* the last call was reset(): the cursor is 0 only after a reset or after the
\* first insert of a fresh storage, and carry is set by reset only
JustReset == carry # None /\ current_step_idx = 0

\* C5: reset() leaves at index 0 of rgbs and goals the values index max_steps
\* held just before it and sets the cursor to 0; a reset() issued right after
\* a reset() changes neither index 0 nor the cursor.
C5_ResetCarriesLastObservation ==
    [][Reset =>
          /\ \A b \in Envs : /\ rgbs'[b][0] = rgbs[b][max_steps]
                              /\ goals'[b][0] = goals[b][max_steps]
          /\ current_step_idx' = 0
          /\ JustReset =>
                 /\ \A b \in Envs : /\ rgbs'[b][0] = rgbs[b][0]
                                     /\ goals'[b][0] = goals[b][0]
                 /\ current_step_idx' = current_step_idx]_vars

\* C5 witness: reset() has moved a written last observation, different from
\* the first one of the horizon, into index 0.
C5_Witness ==
    /\ JustReset
    /\ \A b \in Envs :
           /\ rgbs[b][0] = carry[1].rgbs[b]
           /\ rgbs[b][0] # 0
           /\ goals[b][0] # 0
           /\ rgbs[b][0] = rgbs[b][max_steps]
           /\ rgbs[b][0] # rgbs[b][1]

\* C6 (as stated): after a reset(), slot 0 of each of the six buffers holds
\* that buffer's value from the final slot of the horizon just finished.
C6_EveryBufferCarriesOver ==
    carry # None =>
        \A b \in Envs :
            /\ rgbs[b][0] = carry[1].rgbs[b]
            /\ goals[b][0] = carry[1].goals[b]
            /\ actions[b][0] = carry[1].actions[b]
            /\ dones[b][0] = carry[1].dones[b]
            /\ rewards[b][0] = carry[1].rewards[b]
            /\ successes[b][0] = carry[1].successes[b]

\* C6 (amended): after a reset(), and until the next one, slot 0 of rgbs and
\* of goals holds the value index max_steps of that buffer had when reset()
\* was called.
C6_ObservationsCarryOver ==
    carry # None =>
        \A b \in Envs :
            /\ rgbs[b][0] = carry[1].rgbs[b]
            /\ goals[b][0] = carry[1].goals[b]

\* C6 witness: a written observation was carried over and inserts of the new
\* horizon have followed, the first of them writing an action at slot 0.
C6_Witness ==
    /\ carry # None
    /\ current_step_idx >= 1
    /\ \A b \in Envs :
           /\ rgbs[b][0] = carry[1].rgbs[b]
           /\ rgbs[b][0] # 0
           /\ goals[b][0] = carry[1].goals[b]
           /\ actions[b][0] # 0
           /\ actions[b][0] # carry[1].actions[b]

\* ------------------------------------------------------- train_bc_step
\* a call of train_bc_step has returned; log holds its events
Returned == pc = "ready" /\ nbatches > 0

EventsOf(kind) == SelectSeq(log, LAMBDA e : e.ev = kind)

\* C8: exactly one optimizer step occurs per call of train_bc_step, whatever
\* num_grad_accums is.
C8_OneStepPerBatch == Returned => Len(EventsOf("step")) = 1

\* C9: the minibatches 0, 1, ... are processed in order in chunks of
\* num_grad_accums; the backward pass of a minibatch synchronizes exactly when
\* it is the last of its chunk, every optimizer step follows num_grad_accums
\* backward passes of which only the last synchronized, and a finished batch
\* has made num_minibatches / num_grad_accums synchronized backward passes
\* and num_minibatches in all.
C9_SyncOncePerChunk ==
    LET B == EventsOf("backward")
        nga == config.num_grad_accums
        nmb == config.batch_size \div config.minibatch_size
        synced == SelectSeq(B, LAMBDA e : e.sync)
        local == SelectSeq(B, LAMBDA e : ~e.sync)
    IN  /\ \A i \in 1 .. Len(B) :
               /\ B[i].idx = i - 1
               /\ B[i].sync <=> (i % nga = 0)
        /\ \A p \in 1 .. Len(log) :
               log[p].ev = "step" =>
                   LET before == SelectSeq(SubSeq(log, 1, p), LAMBDA e : e.ev = "backward")
                       n == Len(before)
                   IN  /\ n >= nga
                       /\ before[n].sync
                       /\ \A j \in (n - nga + 1) .. (n - 1) : ~before[j].sync
        /\ Returned =>
               /\ Len(B) = nmb
               /\ Len(synced) = nmb \div nga
               /\ Len(local) = nmb - (nmb \div nga)

\* C9 witness: batch_size = 16, minibatch_size = 4, num_grad_accums = 2 has
\* returned after 2 synchronized and 2 unsynchronized backward passes.
C9_Witness ==
    /\ Returned
    /\ config.batch_size = 16
    /\ config.minibatch_size = 4
    /\ config.num_grad_accums = 2
    /\ Len(SelectSeq(log, LAMBDA e : e.ev = "backward" /\ e.sync)) = 2
    /\ Len(SelectSeq(log, LAMBDA e : e.ev = "backward" /\ ~e.sync)) = 2

\* the minibatches of the c-th chunk (c = 1, 2, ...), in order
ChunkOf(c) ==
    [j \in 1 .. config.num_grad_accums |-> (c - 1) * config.num_grad_accums + j - 1]

\* C10: an optimizer step comes only after the num_grad_accums backward
\* passes of its chunk, with gradient clipping in between exactly when
\* max_grad_norm is configured; zero_grad follows it before any further
\* backward pass; and the gradient it applies is the sum over exactly the
\* minibatches of its chunk.
C10_StepAppliesOneChunk ==
    LET nga == config.num_grad_accums
        clips == config.max_grad_norm # None
    IN  \A p \in 1 .. Len(log) :
            /\ log[p].ev = "step" =>
                   LET c == Len(SelectSeq(SubSeq(log, 1, p), LAMBDA e : e.ev = "step"))
                       q == IF clips THEN p - 1 ELSE p
                   IN  /\ clips <=> (p > 1 /\ log[p - 1].ev = "clip")
                       /\ q > nga
                       /\ \A j \in 1 .. nga :
                              /\ log[q - nga + j - 1].ev = "backward"
                              /\ log[q - nga + j - 1].idx = ChunkOf(c)[j]
                       /\ log[p].grads = ChunkOf(c)
                       /\ p < Len(log) => log[p + 1].ev = "zero"
            /\ log[p].ev = "clip" =>
                   /\ clips
                   /\ p > 1 /\ log[p - 1].ev = "backward"
                   /\ p < Len(log) => log[p + 1].ev = "step"
            /\ (log[p].ev = "backward" /\ p > 1) => log[p - 1].ev \in {"backward", "zero"}
            /\ log[p].ev = "zero" => (p > 1 /\ log[p - 1].ev = "step")

\* C10 witness: with clipping configured and chunks of two minibatches, the
\* second optimizer step of a batch has applied the gradient of minibatches
\* 2 and 3 only.
C10_Witness ==
    /\ Returned
    /\ config.max_grad_norm # None
    /\ config.num_grad_accums = 2
    /\ Len(EventsOf("step")) >= 2
    /\ EventsOf("step")[2].grads = <<2, 3>>
    /\ Len(EventsOf("clip")) = Len(EventsOf("step"))

\* C12: once a minibatch is padded, each of its sub-sequences (L steps,
\* L <= T) has a mask of exactly L True values followed by T - L False
\* values, which stays as it is when the inputs are transformed; the frames
\* and actions as padded have length T, are exactly zero wherever the mask
\* is False, and are the original frames and actions, in order, wherever
\* the mask is True.
C12_MaskIsPrefixPaddingIsZero ==
    mask_t # None =>
        \A i \in 1 .. Len(minibatch.rgbs) :
            LET L == Len(minibatch.rgbs[i])
                m == mask_t[1][i]
            IN  /\ Len(m) = T /\ Len(rgbs_t[1][i]) = T /\ Len(actions_t[1][i]) = T
                /\ \A k \in 1 .. T : m[k] <=> (k <= L)
                /\ padpc = "padded" =>
                       \A k \in 1 .. T :
                           IF m[k]
                           THEN /\ rgbs_t[1][i][k] = minibatch.rgbs[i][k]
                                /\ actions_t[1][i][k] = minibatch.actions[i][k]
                           ELSE /\ rgbs_t[1][i][k] = 0
                                /\ actions_t[1][i][k] = 0

\* C12 witness: a padded minibatch holding a full-length sub-sequence and a
\* shorter one that starts with a lit frame, so both padding and original
\* non-zero values are present.
C12_Witness ==
    /\ padpc = "padded"
    /\ T = 3
    /\ Len(minibatch.rgbs) = 2
    /\ Len(minibatch.rgbs[1]) = 3
    /\ minibatch.rgbs[2] = <<1>>
    /\ mask_t[1][2] = <<TRUE, FALSE, FALSE>>
    /\ rgbs_t[1][2] = <<1, 0, 0>>

\* C18: a to_cpu() call, in whatever state it is made, leaves every slot of
\* rgbs, goals, actions, dones, rewards and successes, their shapes and the
\* cursor exactly as they were.
C18_ToCpuKeepsContent ==
    [][ToCpu => /\ rgbs' = rgbs /\ goals' = goals /\ actions' = actions
                /\ dones' = dones /\ rewards' = rewards
                /\ successes' = successes
                /\ current_step_idx' = current_step_idx
                /\ num_envs' = num_envs /\ max_steps' = max_steps]_vars

\* C18 witness: to_cpu() was called on a storage holding a written
\* transition (cursor past slot 0) and the storage is as it was at the call.
C18_Witness ==
    /\ at_to_cpu = Some(storage_vars)
    /\ current_step_idx >= 1
    /\ \E k \in Tokens : /\ GetCol(rgbs, 1, max_steps + 1) = FrameOf(k)
                          /\ GetCol(actions, 0, max_steps + 1) = ActionOf(k)

\* C19 (as stated): after a to_cpu() call every buffer the storage holds
\* resides on the host, whatever device it resided on before.
C19_ToCpuRelocates ==
    [][ToCpu => \A t \in Buffers : device'[t] = "cpu"]_vars

\* C11: with a configuration where batch_size is not a multiple of
\* minibatch_size, or batch_size / minibatch_size is not a multiple of
\* num_grad_accums, no worker gets past validate_config: it is about to run
\* it or has failed in it, and nothing of the later work exists (no store
\* key, no file list, no checkpoint path, no barrier call, no training step,
\* no checkpoint).
C11_InvalidConfigFailsFirst ==
    (\/ config.batch_size % config.minibatch_size # 0
     \/ (config.batch_size \div config.minibatch_size) % config.num_grad_accums # 0)
    => /\ \A w \in Workers :
              /\ wpc[w] \in {"validate_config", "AssertionError"}
              /\ data_files[w] = None /\ ckpt_path[w] = None
              /\ cumstats[w] = None
              /\ arrived[w] = 0 /\ trained[w] = 0
       /\ artifact_store.data_files = None
       /\ artifact_store.actor_policy_ckpt = None
       /\ writes = << >>

\* C11 witness: both workers of a job have failed in validate_config on a
\* configuration that passes the first assertion and fails the second.
C11_Witness ==
    /\ world_size = 2
    /\ config.batch_size % config.minibatch_size = 0
    /\ \A w \in Workers : wpc[w] = "AssertionError"

\* the most recent save_checkpoint call that wrote ckpt.<idx>.pth
LastWrite(idx) ==
    LET at == {i \in 1 .. Len(writes) : writes[i].index = idx}
    IN  writes[CHOOSE i \in at : \A k \in at : k <= i]

\* C13: a worker that has just loaded a checkpoint holds the step, epoch,
\* total_frames and sampler cursor the saving trainer had when it wrote
\* that file, its cumstats are the saved stats, and its step and epoch are
\* the ones in cumstats.
C13_CheckpointRoundTrip ==
    \A w \in Workers :
        (wpc[w] = "start_barrier" /\ run.resume_id # None) =>
            LET at_save == LastWrite(ckpt_path[w][1])
            IN  /\ step[w] = at_save.step
                /\ epoch[w] = at_save.epoch
                /\ cumstats[w][1].total_frames = at_save.total_frames
                /\ sampler[w] = at_save.sampler
                /\ cumstats[w][1] = ckpt_files[ckpt_path[w][1]].stats
                /\ step[w] = cumstats[w][1].step
                /\ epoch[w] = cumstats[w][1].epoch

\* C13 witness: a worker has loaded a checkpoint saved past the first step
\* and the first epoch, with frames counted and the sampler inside an epoch.
C13_Witness ==
    \E w \in Workers :
        /\ wpc[w] = "start_barrier" /\ run.resume_id # None
        /\ step[w] >= 1 /\ epoch[w] >= 1
        /\ cumstats[w][1].total_frames >= 2
        /\ sampler[w] >= 1

\* C14: a worker inside its (k+1)-th train_bc_step call implies every
\* worker has returned from its k-th call.
C14_StepsInLockstep ==
    \A w \in Workers :
        wpc[w] \in {"train_bc_step", "sync_backward"} =>
            \A v \in Workers : trained[v] >= trained[w]

\* C14 witness: one of two workers is inside its second training step while
\* the other has finished the first and not yet begun the second.
C14_Witness ==
    /\ world_size = 2
    /\ wpc[0] = "train_bc_step" /\ trained[0] = 1
    /\ wpc[1] \in {"all_reduce", "step_inc", "for"} /\ trained[1] = 1

\* C15 (as stated): each rendezvous key is set by rank 0 only, and every
\* worker that has obtained its file list (its checkpoint path) holds
\* exactly the list (the path) the producer holds.
C15_RendezvousDeliversProducerValue ==
    /\ store_writers.data_files \subseteq {0}
    /\ store_writers.actor_policy_ckpt \subseteq {0}
    /\ \A w \in Workers :
           /\ data_files[w] # None =>
                  /\ artifact_store.data_files # None
                  /\ data_files[w] = data_files[0]
           /\ ckpt_path[w] # None =>
                  /\ artifact_store.actor_policy_ckpt # None
                  /\ ckpt_path[w] = ckpt_path[0]

\* the workers inside save_checkpoint
Saving == {w \in Workers : wpc[w] \in {"save_checkpoint", "save_artifact"}}

\* C16: every checkpoint write was made by rank 0, only rank 0 is ever
\* inside save_checkpoint, and never two workers at once.
C16_OnlyRankZeroSaves ==
    /\ \A i \in 1 .. Len(writes) : writes[i].rank = 0
    /\ Saving \subseteq {0}
    /\ Cardinality(Saving) <= 1

\* C16 witness: in a job of two workers rank 0 is inside save_checkpoint for
\* its second checkpoint while the other worker moves on.
C16_Witness ==
    /\ world_size = 2
    /\ wpc[0] = "save_artifact"
    /\ Len(writes) = 2
    /\ wpc[1] \in {"step_inc", "for", "train_bc_step"}

\* C17 (as stated): every checkpoint write happens at a step with
\* step % ckpt_freq = 0 and is named step // ckpt_freq, rank 0 never leaves
\* such a step without its write, and each write's index is greater than
\* the index of the write before it, across launches of the job.
C17_CheckpointIndexIncreases ==
    /\ \A i \in 1 .. Len(writes) :
           /\ writes[i].step % run.ckpt_freq = 0
           /\ writes[i].index = writes[i].step \div run.ckpt_freq
    /\ (wpc[0] = "step_inc" /\ step[0] % run.ckpt_freq = 0) =>
           /\ Len(writes) > 0
           /\ writes[Len(writes)].step = step[0]
    /\ \A i \in 1 .. (Len(writes) - 1) : writes[i + 1].index > writes[i].index

\* C20: whenever envs.step is about to be issued with an episode counted
\* (total_episodes > 0), stats.pkl holds exactly the counters in memory; an
\* evaluation that has just started holds the counters of stats.pkl if the
\* file exists, zero counters only if it does not; and every evaluation
\* does start: eval() never ends at loading the stats file.
C20_StatsPersistedEveryStep ==
    /\ epc # "EOFError"
    /\ (epc = "envs_step" /\ stats[1].total_episodes > 0) =>
           stats_exists /\ stats_file = stats
    /\ (epc = "while" /\ nsteps = 0) =>
           stats = (IF stats_exists THEN stats_file ELSE Some(ZeroStats))

\* C21: when saving the video of a finished episode fails, the exception
\* is caught and counted as reported, the counters (which already include
\* the episode) stay as they are, the list of the episode is cleared, and
\* the loop over dones goes on with the next environment.
C21_VideoFailureIsNotFatal ==
    [][(save_episode_video /\ video_errors' > video_errors) =>
           /\ video_errors' = video_errors + 1
           /\ stats' = stats
           /\ stats_file' = stats_file
           /\ stats_exists' = stats_exists
           /\ episodes'[ei] = 0
           /\ \A i \in EvalEnvs : i # ei => episodes'[i] = episodes[i]
           /\ ei' = ei + 1
           /\ epc' = "for_dones"]_vars

\* C21 witness: after a video failure on the only finished episode the
\* evaluation has persisted the counters, which include that episode, and
\* is about to issue the next environment step.
C21_Witness ==
    /\ nevals = 1
    /\ eval_cfg.save_videos
    /\ video_errors = 1
    /\ epc = "envs_step"
    /\ stats[1].total_episodes = 1
    /\ stats_file = stats
    /\ eval_cfg.num_envs = 2
    /\ \E i \in EvalEnvs : episodes[i] = 0
    /\ \E i \in EvalEnvs : episodes[i] >= 1

\* the number of inserts a storage takes before one overruns: max_steps + 1
\* from construction, max_steps from a reset()
Capacity == IF carry = None THEN max_steps + 1 ELSE max_steps

\* C22: after every call the cursor is within -1 .. max_steps, and it is -1
\* only while no insert has succeeded and no reset() was made; an insert is
\* accepted exactly while fewer than max_steps + 1 (from construction) or
\* max_steps (from a reset) inserts were accepted; and the first insert of a
\* fresh storage writes the observation at index 0 and each of dones,
\* actions and rewards it is given at the last slot, index max_steps.
C22_CursorRangeAndCapacity ==
    [][/\ -1 <= current_step_idx' /\ current_step_idx' <= max_steps'
       /\ (current_step_idx' = -1) <=> (accepted' = 0 /\ carry' = None)
       /\ \A k \in Tokens, given \in ArgSets :
              InsertWith(k, given) =>
                  /\ (raised' = "none") <=> (accepted < Capacity)
                  /\ (raised' = "IndexError") <=> (accepted = Capacity)
                  /\ (accepted = 0 /\ carry = None) =>
                         /\ GetCol(rgbs', 0, max_steps + 1) = FrameOf(k)
                         /\ "dones" \in given =>
                                \A b \in Envs : dones'[b][max_steps] = FlagsOf(k)[b]
                         /\ "actions" \in given =>
                                \A b \in Envs : actions'[b][max_steps] = ActionOf(k)[b]
                         /\ "rewards" \in given =>
                                \A b \in Envs : rewards'[b][max_steps] = RewardOf(k)[b]]_vars

\* C22 witness: a storage with max_steps = 2 was reset, then took exactly two
\* inserts and refused the third.
C22_Witness ==
    /\ max_steps = 2
    /\ carry # None
    /\ accepted = 2
    /\ current_step_idx = 2
    /\ raised = "IndexError"

\* C23: the step limit is looked at only between passes over the data
\* loader: a worker enters the while test only from the start barrier or
\* from an exhausted pass, inside a pass a batch that is left is always
\* trained on, whatever the step counter, and train() returns only from the
\* while test with the limit reached; a worker that has returned has
\* step >= train.steps with an overshoot smaller than the batches of one
\* epoch; and with a valid configuration every worker eventually returns.
C23_StepLimitCheckedBetweenEpochs ==
    /\ [][\A w \in Workers :
              /\ (wpc[w] # "while" /\ wpc'[w] = "while") =>
                     \/ wpc[w] = "start_barrier_wait"
                     \/ wpc[w] = "for" /\ ~sampler_has_next(sampler[w])
              /\ (wpc[w] = "for" /\ wpc'[w] = "while") =>
                     ~sampler_has_next(sampler[w])
              /\ (wpc[w] # "done" /\ wpc'[w] = "done") =>
                     wpc[w] = "while" /\ step[w] >= run.steps]_vars
    /\ [](\A w \in Workers :
              wpc[w] = "done" =>
                  /\ step[w] >= run.steps
                  /\ step[w] - run.steps < run.epoch_len)
    /\ ConfigValid => <>(\A w \in Workers : wpc[w] = "done")

\* C23 witness: two workers have returned from train() past the limit: the
\* limit was reached inside an epoch and the epoch was finished first.
C23_Witness ==
    /\ world_size = 2
    /\ \A w \in Workers : wpc[w] = "done" /\ step[w] > run.steps
    /\ run.steps >= 1

\* C24: while eval_checkpoint runs, 0 <= successful_episodes <=
\* total_episodes; total_episodes never decreases; the loop is left exactly
\* at a while test that finds total_episodes >= N_episodes; and after the
\* loop N_episodes <= total_episodes <= N_episodes + num_envs - 1, the
\* environments that finish in the last step all being counted.
C24_EpisodeCounters ==
    /\ [](stats # None =>
              /\ 0 <= stats[1].successful_episodes
              /\ stats[1].successful_episodes <= stats[1].total_episodes
              /\ stats[1].total_episodes
                     <= eval_cfg.num_episodes + eval_cfg.num_envs - 1
              /\ epc = "done" =>
                     stats[1].total_episodes >= eval_cfg.num_episodes
              /\ epc = "envs_step" =>
                     stats[1].total_episodes < eval_cfg.num_episodes)
    /\ [][/\ (stats # None /\ stats' # None) =>
                 stats'[1].total_episodes >= stats[1].total_episodes
          /\ (epc # "done" /\ epc' = "done") => epc = "while"
          /\ (epc = "while" /\ epc' # "eval") =>
                 (epc' = "done"
                      <=> stats[1].total_episodes >= eval_cfg.num_episodes)]_vars

\* C24 witness: an evaluation started from zero stats has left the loop with
\* N_episodes + num_envs - 1 episodes counted, two of them in the last step.
C24_Witness ==
    /\ epc = "done"
    /\ nevals = 1
    /\ eval_cfg.num_envs = 2
    /\ eval_cfg.num_episodes = 2
    /\ stats[1].total_episodes = 3
    /\ stats[1].successful_episodes = 1

====
